---- MODULE Spec2Model ----
(***************************************************************************)
(* Reconciliation of inspection missions with bookings (app/main.py).      *)
(*                                                                         *)
(* The handlers of app/main.py talk to a remote record store over REST.    *)
(* Every handler is one action: it reads and writes the tables through the *)
(* request operators below, and every request may succeed, come back with  *)
(* an error status, or raise.  Text values (unit numbers, guest names) are *)
(* sequences of one-character strings so that strip(), "in" and join()     *)
(* are computed as Python computes them; dates and row ids are strings.    *)
(***************************************************************************)
EXTENDS Integers, Sequences, FiniteSets, TLC

VARIABLES
    orders,     \* table orders: sequence of rows, in the store's return order
    missions,   \* [table name -> set of mission rows]
    tasks,      \* [table name -> set of task rows]
    today,      \* index of the current calendar month (date.today())
    scope,      \* the inspection kind whose tables the behaviour follows
    clients,    \* the requests the clients send in the behaviour
    inflight,   \* the calls that have done their reads and not yet their writes
    last        \* what the last handler call did (its report)

vars == <<orders, missions, tasks, today, scope, clients, inflight, last>>

(***************************************************************************)
(* Bounds                                                                  *)
(***************************************************************************)
MaxMonth == 1       \* calendar months that pass in a behaviour
MaxInFlight == 2    \* calls that overlap

(***************************************************************************)
(* Text                                                                    *)
(***************************************************************************)
None == <<"None">>              \* Python's None where a text is expected
NoneDate == "None"              \* Python's None where a date is expected

RECURSIVE lstrip(_, _)
lstrip(s, chars) ==
    IF s # <<>> /\ Head(s) \in chars THEN lstrip(Tail(s), chars) ELSE s

RECURSIVE rstrip(_, _)
rstrip(s, chars) ==
    IF s # <<>> /\ s[Len(s)] \in chars
    THEN rstrip(SubSeq(s, 1, Len(s) - 1), chars) ELSE s

\* str.strip(chars)
strip_chars(s, chars) == rstrip(lstrip(s, chars), chars)

\* str.strip(): whitespace
strip(s) == strip_chars(s, {" "})

\* Python's "sub in s" on strings
str_in(sub, s) ==
    \E i \in 1..(Len(s) + 1) :
        /\ i + Len(sub) - 1 <= Len(s)
        /\ SubSeq(s, i, i + Len(sub) - 1) = sub

CommaSpace == <<",", " ">>

\* ", ".join(names)
RECURSIVE join(_)
join(names) ==
    IF names = <<>> THEN <<>>
    ELSE IF Len(names) = 1 THEN names[1]
    ELSE names[1] \o CommaSpace \o join(Tail(names))

\* Python truthiness of a text or None
truthy(s) == s # <<>> /\ s # None

(***************************************************************************)
(* Vocabulary                                                              *)
(***************************************************************************)
CANCELLED == "cancelled"        \* the status value "בוטל"
STATUS_NEW == "new"             \* the status value "חדש"
NOT_YET_DUE == "not_yet_due"    \* "זמן הביקורות טרם הגיע"
DONE == "done"                  \* a mission status that a client sends

Dates == {"d1", "d2"}
Statuses == {STATUS_NEW, CANCELLED}

DateKinds == {"inspections", "cleaning_inspections"}
Kinds == DateKinds \cup {"monthly_inspections"}

Prefix(kind) ==
    IF kind = "inspections" THEN "INSP-"
    ELSE IF kind = "cleaning_inspections" THEN "CLEAN-"
    ELSE "MONTHLY-"

DEFAULT_INSPECTION_TASKS ==
    << [id |-> "1", name |-> "e1", completed |-> FALSE],
       [id |-> "2", name |-> "e2", completed |-> FALSE] >>

DEFAULT_CLEANING_INSPECTION_TASKS ==
    << [id |-> "1", name |-> "c1", completed |-> FALSE],
       [id |-> "2", name |-> "c2", completed |-> FALSE] >>

DEFAULT_MONTHLY_INSPECTION_TASKS ==
    << [id |-> "1", name |-> "m1", completed |-> FALSE],
       [id |-> "2", name |-> "m2", completed |-> FALSE] >>

DefaultTasks(kind) ==
    IF kind = "inspections" THEN DEFAULT_INSPECTION_TASKS
    ELSE IF kind = "cleaning_inspections" THEN DEFAULT_CLEANING_INSPECTION_TASKS
    ELSE DEFAULT_MONTHLY_INSPECTION_TASKS

(***************************************************************************)
(* Remote calls and their failures.  A fault plan is a set of              *)
(* <<request, outcome>> pairs; a request that is not in the plan answers   *)
(* "ok".  "500" is an error status, "exc" a raised exception.              *)
(***************************************************************************)
Outcome(F, req) ==
    IF \E f \in F : f[1] = req
    THEN (CHOOSE f \in F : f[1] = req)[2]
    ELSE "ok"

\* faults: the <<request, outcome>> pairs that may happen during one handler
\* call; a call meets at most one of them
FaultPlans(faults) == {{}} \cup {{f} : f \in faults}

(***************************************************************************)
(* The record store.  One call's working state is a record                 *)
(*   [m: mission rows, t: task rows, created, updated, deleted, seeded,    *)
(*    hit, sent, raised, caught]                                           *)
(* for one kind; created/updated/deleted are the mission ids the call has  *)
(* created, patched and deleted, seeded the mission ids whose default      *)
(* tasks it has posted, hit the keys on which a request failed, sent the   *)
(* <<mission id, field, changed>> of every field a mission PATCH carried   *)
(* (changed: the value differs from the stored one), raised whether an     *)
(* exception is propagating, caught whether the call has caught one.       *)
(***************************************************************************)
Work(kind) ==
    [m |-> missions[kind], t |-> tasks[kind],
     created |-> {}, updated |-> {}, deleted |-> {}, seeded |-> {}, hit |-> {},
     sent |-> {}, raised |-> FALSE, caught |-> FALSE]

HasMission(M, id) == \E r \in M : r.id = id
HasTask(T, tid, mid) == \E r \in T : r.id = tid /\ r.inspection_id = mid

\* DELETE of a mission row; its task rows go with it
DeleteMissionRow(w, id) ==
    [w EXCEPT !.m = {r \in w.m : r.id # id},
              !.t = {r \in w.t : r.inspection_id # id},
              !.deleted = IF HasMission(w.m, id) THEN w.deleted \cup {id}
                          ELSE w.deleted]

\* Python's dict.get(field, default) on a row the store returned
Get(row, field, default) ==
    IF field \in DOMAIN row THEN row[field] ELSE default

\* a request's key on the work record's failure list
Fail(w, key) == [w EXCEPT !.hit = w.hit \cup {key}]

\* an exception leaves the statement that raised it
Raise(w) == [w EXCEPT !.raised = TRUE]

\* a handler that lets the exception pass to the caller
Except_Reraise(w) == w

\* "except Exception as e: print(...)": the exception stops here
Except(w) ==
    [w EXCEPT !.raised = FALSE, !.caught = w.caught \/ w.raised]

MissionRowsByDate(M, departure_date) ==
    {r \in M : r.departure_date = departure_date}

\* PATCH <table>?id=eq.<id> with the given fields
PatchMission(w, id, update_data) ==
    [w EXCEPT
        !.m = {IF r.id = id
               THEN [f \in DOMAIN r |->
                        IF f \in DOMAIN update_data THEN update_data[f] ELSE r[f]]
               ELSE r : r \in w.m},
        !.updated = IF HasMission(w.m, id) THEN w.updated \cup {id} ELSE w.updated,
        !.sent = w.sent \cup
                 UNION {{<<id, f, r[f] # update_data[f]>> :
                            f \in DOMAIN update_data \cap DOMAIN r} :
                        r \in {x \in w.m : x.id = id}}]

\* POST <table>: a row whose id is taken answers 409 and nothing is stored
PostMission(w, row) ==
    IF HasMission(w.m, row.id) THEN Fail(w, "CONFLICT " \o row.id)
    ELSE [w EXCEPT !.m = w.m \cup {row}, !.created = w.created \cup {row.id}]

\* a POST that overwrites the row whose (id, inspection_id) is taken
PostTask_MergeDuplicates(w, row) ==
    [w EXCEPT !.t = {r \in w.t : ~ (r.id = row.id /\ r.inspection_id = row.inspection_id)}
                    \cup {row}]

\* POST <tasks table>: a row whose (id, inspection_id) is taken answers 409
PostTask(w, row) ==
    IF HasTask(w.t, row.id, row.inspection_id) THEN w
    ELSE [w EXCEPT !.t = w.t \cup {row}]

(***************************************************************************)
(* create_inspection_for_departure_date and its cleaning twin              *)
(***************************************************************************)
\* a loop that posts the first of the default tasks only
SeedDefaultTasks_FirstOnly(kind, w, F, inspection_id, key, todo) ==
    IF todo = <<>> THEN w
    ELSE PostTask(w, [id |-> Head(todo).id, inspection_id |-> inspection_id,
                      name |-> Head(todo).name, completed |-> Head(todo).completed])

\* the loop over the default tasks: each is posted, every answer is ignored
RECURSIVE SeedDefaultTasks(_, _, _, _, _, _)
SeedDefaultTasks(kind, w, F, inspection_id, key, todo) ==
    IF todo = <<>> THEN w
    ELSE
        LET task == Head(todo)
            task_data == [id |-> task.id, inspection_id |-> inspection_id,
                          name |-> task.name, completed |-> task.completed]
            out == Outcome(F, <<"POST_TASK", kind, inspection_id, task.id>>)
            w1 == IF out = "ok" THEN PostTask(w, task_data) ELSE Fail(w, key)
        IN SeedDefaultTasks(kind, w1, F, inspection_id, key, Tail(todo))

\* the branch taken when a mission already exists for the departure date
UpdateExistingForDate(kind, w, F, existing, unit_number, guest_name) ==
    IF Get(existing, "unit_number", None) # unit_number
       \/ Get(existing, "guest_name", None) # guest_name
    THEN
        LET existing_guests == Get(existing, "guest_name", <<>>)
            guest_data ==
                IF Get(existing, "guest_name", None) # guest_name
                THEN IF ~ str_in(guest_name, existing_guests)
                     THEN [guest_name |->
                             strip_chars(existing_guests \o CommaSpace \o guest_name,
                                         {",", " "})]
                     ELSE [guest_name |-> existing_guests]
                ELSE <<>>
            unit_data ==
                IF Get(existing, "unit_number", None) # unit_number
                THEN [unit_number |-> unit_number]
                ELSE <<>>
            update_data == unit_data @@ guest_data
        IN IF DOMAIN update_data # {}
           THEN IF Outcome(F, <<"PATCH", kind, existing.id, "">>) = "ok"
                THEN PatchMission(w, existing.id, update_data)
                ELSE Fail(w, existing.departure_date)
           ELSE w
    ELSE w

\* the columns the existence check selects: id, departure_date, unit_number
CheckColumns == {"id", "departure_date", "unit_number"}

Select(row, cols) == [f \in (DOMAIN row \cap cols) |-> row[f]]

\* a test of the unit alone
SkipsCreation_UnitOnly(unit_number, guest_name) ==
    ~ truthy(unit_number) \/ ~ truthy(strip(unit_number))

\* "Don't create inspection if unit_number or guest_name are empty"
SkipsCreation(unit_number, guest_name) ==
    \/ ~ truthy(unit_number) \/ ~ truthy(strip(unit_number))
    \/ ~ truthy(guest_name) \/ ~ truthy(strip(guest_name))

\* an id that also names the unit of the booking
InspectionId_PerUnit(kind, departure_date, unit_number) ==
    Prefix(kind) \o departure_date \o "/" \o unit_number[1]

\* inspection_id = f"INSP-{departure_date}" (f"CLEAN-{departure_date}")
InspectionId(kind, departure_date, unit_number) == Prefix(kind) \o departure_date

\* what the function does once its existence check has answered: check is the
\* outcome of the check, found the rows it returned
CreateAfterCheck(kind, w, F, check, found, departure_date, unit_number, guest_name) ==
    LET inspection_id == InspectionId(kind, departure_date, unit_number)
        inspection_data ==
            [id |-> inspection_id, unit_number |-> unit_number,
             guest_name |-> guest_name, departure_date |-> departure_date,
             status |-> NOT_YET_DUE]
        create == Outcome(F, <<"POST", kind, inspection_id, "">>)
    IN
    IF check = "exc" THEN Fail(w, departure_date)
    ELSE IF found # {}
    THEN UpdateExistingForDate(kind, IF check = "ok" THEN w ELSE Fail(w, departure_date),
                               F, Select(CHOOSE r \in found : TRUE, CheckColumns),
                               unit_number, guest_name)
    ELSE
        LET w0 == IF check = "ok" THEN w ELSE Fail(w, departure_date)
        IN
        IF create = "exc" THEN Fail(w0, departure_date)
        ELSE
            LET w1 == IF create = "ok" THEN PostMission(w0, inspection_data)
                      ELSE Fail(w0, departure_date)
                w2 == [w1 EXCEPT !.seeded = w1.seeded \cup {inspection_id}]
            IN SeedDefaultTasks(kind, w2, F, inspection_id, departure_date,
                                DefaultTasks(kind))

\* the rows the existence check returns
CheckForDate(kind, w, F, departure_date) ==
    IF Outcome(F, <<"GET", kind, departure_date, "">>) = "ok"
    THEN MissionRowsByDate(w.m, departure_date)
    ELSE {}

CreateForDepartureDate(kind, w, F, departure_date, unit_number, guest_name) ==
    IF departure_date = "" THEN w
    ELSE IF SkipsCreation(unit_number, guest_name) THEN w
    ELSE CreateAfterCheck(kind, w, F, Outcome(F, <<"GET", kind, departure_date, "">>),
                          CheckForDate(kind, w, F, departure_date),
                          departure_date, unit_number, guest_name)

create_inspection_for_departure_date(w, F, departure_date, unit_number, guest_name) ==
    CreateForDepartureDate("inspections", w, F, departure_date, unit_number, guest_name)

create_cleaning_inspection_for_departure_date(w, F, departure_date, unit_number, guest_name) ==
    CreateForDepartureDate("cleaning_inspections", w, F, departure_date,
                           unit_number, guest_name)

(***************************************************************************)
(* sync_inspections_with_orders, sync_cleaning_inspections_with_orders     *)
(***************************************************************************)
\* the test both passes apply before an order joins orders_by_date
Groupable(order) ==
    /\ order.departure_date # ""
    /\ order.status # CANCELLED
    /\ truthy(order.unit_number) /\ truthy(strip(order.unit_number))
    /\ truthy(order.guest_name) /\ truthy(strip(order.guest_name))

\* the keys of orders_by_date, in insertion order
RECURSIVE DatesInOrder(_, _)
DatesInOrder(rows, seen) ==
    IF rows = <<>> THEN <<>>
    ELSE IF Head(rows).departure_date \in seen THEN DatesInOrder(Tail(rows), seen)
    ELSE <<Head(rows).departure_date>>
         \o DatesInOrder(Tail(rows), seen \cup {Head(rows).departure_date})

OrdersForDate(rows, departure_date) ==
    LET OnDate(o) == o.departure_date = departure_date
    IN SelectSeq(rows, OnDate)

\* [o.guest_name.strip() for o in orders_for_date if o.guest_name.strip()]
RECURSIVE GuestNamesOf(_)
GuestNamesOf(rows) ==
    IF rows = <<>> THEN <<>>
    ELSE IF truthy(strip(Head(rows).guest_name))
         THEN <<strip(Head(rows).guest_name)>> \o GuestNamesOf(Tail(rows))
         ELSE GuestNamesOf(Tail(rows))

SeqToSet(q) == {q[i] : i \in 1..Len(q)}

\* a deletion loop that takes the stored dates for the dates of the orders
DeleteOrphans_StoredDates(kind, w, F, existing, orders_dates) == w

\* the deletion loop over the missions fetched at the start of the pass
RECURSIVE DeleteOrphans(_, _, _, _, _)
DeleteOrphans(kind, w, F, existing, orders_dates) ==
    IF existing = {} THEN w
    ELSE
        LET inspection == CHOOSE r \in existing : TRUE
            rest == existing \ {inspection}
            w1 == IF inspection.departure_date # ""
                     /\ inspection.departure_date \notin orders_dates
                  THEN IF Outcome(F, <<"DELETE", kind, inspection.id, "">>) = "ok"
                       THEN DeleteMissionRow(w, inspection.id)
                       ELSE Fail(w, inspection.departure_date)
                  ELSE w
        IN DeleteOrphans(kind, w1, F, rest, orders_dates)

\* a creation loop that stops at the first date whose requests fail
RECURSIVE CreateMissingExit_StopOnFailure(_, _, _, _, _)
CreateMissingExit_StopOnFailure(w, F, grouped, dates, existing_dates) ==
    IF dates = <<>> THEN w
    ELSE
        LET departure_date == Head(dates)
            orders_for_date == OrdersForDate(grouped, departure_date)
            first_order == orders_for_date[1]
            guest_names == GuestNamesOf(orders_for_date)
            w1 == IF departure_date \notin existing_dates
                  THEN create_inspection_for_departure_date(
                           w, F, departure_date,
                           strip(first_order.unit_number), join(guest_names))
                  ELSE w
        IN IF w1.hit # w.hit THEN w1
           ELSE CreateMissingExit_StopOnFailure(w1, F, grouped, Tail(dates),
                                                existing_dates)

\* the creation loop of the exit pass
RECURSIVE CreateMissingExit(_, _, _, _, _)
CreateMissingExit(w, F, grouped, dates, existing_dates) ==
    IF dates = <<>> THEN w
    ELSE
        LET departure_date == Head(dates)
            orders_for_date == OrdersForDate(grouped, departure_date)
            first_order == orders_for_date[1]
            guest_names == GuestNamesOf(orders_for_date)
            w1 == IF departure_date \notin existing_dates
                  THEN create_inspection_for_departure_date(
                           w, F, departure_date,
                           strip(first_order.unit_number), join(guest_names))
                  ELSE w
        IN CreateMissingExit(w1, F, grouped, Tail(dates), existing_dates)

\* a pass that takes no date for stored
sync_inspections_with_orders_NoExisting(w, F) ==
    LET NotCancelled(o) == o.status # CANCELLED
        grouped == SelectSeq(SelectSeq(orders, NotCancelled), Groupable)
        dates == DatesInOrder(grouped, {})
    IN DeleteOrphans("inspections", CreateMissingExit(w, F, grouped, dates, {}),
                     F, w.m, SeqToSet(dates))

\* the exit pass once its two reads have answered: fetched are the orders and
\* existing_inspections the missions that the reads returned
ReconcileExit(w, F, fetched, existing_inspections) ==
    LET grouped == SelectSeq(fetched, Groupable)
        dates == DatesInOrder(grouped, {})
        existing_dates == {r.departure_date : r \in
                              {x \in existing_inspections : x.departure_date # ""}}
    IN DeleteOrphans("inspections",
                     CreateMissingExit(w, F, grouped, dates, existing_dates),
                     F, existing_inspections, SeqToSet(dates))

\* a pass that goes on with what it holds when a read fails
sync_inspections_with_orders_ReadsIgnored(w, F) ==
    LET NotCancelled(o) == o.status # CANCELLED
    IN Except(ReconcileExit(w, F, SelectSeq(orders, NotCancelled), w.m))

sync_inspections_with_orders(w, F) ==
    LET orders_out == Outcome(F, <<"GET", "orders", "", "">>)
        list_out == Outcome(F, <<"GET", "inspections", "", "">>)
        NotCancelled(o) == o.status # CANCELLED
        fetched == SelectSeq(orders, NotCancelled)
        existing_inspections == IF list_out = "ok" THEN w.m ELSE {}
        w0 == IF list_out = "ok" THEN w ELSE Fail(w, "READ")
    IN
    IF orders_out = "exc" \/ list_out = "exc" THEN Except(Raise(Fail(w, "READ")))
    ELSE IF orders_out # "ok" THEN Fail(w, "READ")
    ELSE Except(ReconcileExit(w0, F, fetched, existing_inspections))

\* ", ".join(set(guest_names)): the names once each, in the set's order
JoinSet(names, set_order) ==
    LET Member(n) == n \in names
    IN join(SelectSeq(set_order, Member))

\* the creation loop of the cleaning pass
RECURSIVE CreateMissingCleaning(_, _, _, _, _, _)
CreateMissingCleaning(w, F, grouped, dates, existing_dates, set_order) ==
    IF dates = <<>> THEN w
    ELSE
        LET departure_date == Head(dates)
            date_orders == OrdersForDate(grouped, departure_date)
            first_order == date_orders[1]
            unit_number == strip(first_order.unit_number)
            guest_name ==
                IF Len(date_orders) > 1
                THEN JoinSet(SeqToSet(GuestNamesOf(date_orders)), set_order)
                ELSE strip(first_order.guest_name)
            w1 == IF departure_date \notin existing_dates
                  THEN create_cleaning_inspection_for_departure_date(
                           w, F, departure_date, unit_number, guest_name)
                  ELSE w
        IN CreateMissingCleaning(w1, F, grouped, Tail(dates), existing_dates, set_order)

\* an order on which .strip() raises: unit_number or guest_name is None
StripRaises(o) ==
    /\ o.departure_date # "" /\ o.status # CANCELLED
    /\ (o.unit_number = None \/ o.guest_name = None)

\* the cleaning pass once its two reads have answered
ReconcileCleaning(w, F, fetched, existing_cleaning_inspections, set_order) ==
    LET grouped == SelectSeq(fetched, Groupable)
        dates == DatesInOrder(grouped, {})
        existing_cleaning_dates ==
            {r.departure_date : r \in
                {x \in existing_cleaning_inspections : x.departure_date # ""}}
    IN
    IF \E i \in 1..Len(fetched) : StripRaises(fetched[i]) THEN Raise(w)
    ELSE DeleteOrphans("cleaning_inspections",
                       CreateMissingCleaning(w, F, grouped, dates,
                                             existing_cleaning_dates, set_order),
                       F, existing_cleaning_inspections, SeqToSet(dates))

sync_cleaning_inspections_with_orders(w, F, set_order) ==
    LET orders_out == Outcome(F, <<"GET", "orders", "", "">>)
        list_out == Outcome(F, <<"GET", "cleaning_inspections", "", "">>)
        existing_cleaning_inspections == IF list_out = "ok" THEN w.m ELSE {}
        w0 == IF list_out = "ok" THEN w ELSE Fail(w, "READ")
    IN
    IF orders_out = "exc" \/ list_out = "exc" THEN Except(Raise(Fail(w, "READ")))
    ELSE IF orders_out # "ok" THEN Fail(w, "READ")
    ELSE Except(ReconcileCleaning(w0, F, orders, existing_cleaning_inspections,
                                  set_order))

(***************************************************************************)
(* The booking handlers and their hooks.  A behaviour follows the tables   *)
(* of one inspection kind (scope): the exit and the cleaning tables are    *)
(* disjoint, no code path reads one family and writes the other, so what   *)
(* a booking handler does to the other family is followed in the           *)
(* behaviours of that scope.                                               *)
(***************************************************************************)
\* the ids the orders get, in the order of their creation
OrderIdSeq == <<"o1", "o2">>

OrderIdsInUse == {orders[i].id : i \in 1..Len(orders)}

\* the id a new order gets (uuid4: an id no stored order has)
FreshOrderId == OrderIdSeq[Len(orders) + 1]

OrderIndex(order_id) == CHOOSE i \in 1..Len(orders) : orders[i].id = order_id

update_inspection_for_departure_date(w, F, old_date, new_date, unit_number, guest_name) ==
    IF new_date = "" THEN w
    ELSE IF old_date # NoneDate /\ old_date # "" /\ old_date # new_date
            /\ Outcome(F, <<"GET", "orders", old_date, "">>) = "exc"
    THEN Fail(w, old_date)
    ELSE create_inspection_for_departure_date(w, F, new_date, unit_number, guest_name)

update_cleaning_inspection_for_departure_date(w, F, old_date, new_date, unit_number, guest_name) ==
    IF new_date = "" THEN w
    ELSE
        LET old_inspection_id == "CLEAN-" \o old_date
            w1 == IF old_date # NoneDate /\ old_date # ""
                     /\ old_date # new_date
                  THEN IF Outcome(F, <<"DELETE", "cleaning_inspections",
                                       old_inspection_id, "">>) = "ok"
                       THEN DeleteMissionRow(w, old_inspection_id)
                       ELSE Fail(w, old_date)
                  ELSE w
        IN create_cleaning_inspection_for_departure_date(
               w1, F, new_date, unit_number, guest_name)

NoWork == [m |-> {}, t |-> {}, created |-> {}, updated |-> {}, deleted |-> {},
           seeded |-> {}, hit |-> {}, sent |-> {}, raised |-> FALSE,
           caught |-> FALSE]

NoOrder == [id |-> "", unit_number |-> <<>>, guest_name |-> <<>>,
            departure_date |-> "", status |-> ""]

\* the report of a handler call: what its work record says, whether the
\* booking it ran its hooks for was active ("" when it ran none), whether
\* it is a pass that follows a pass that met no failure, and the status of
\* the response when the call is the trigger of a pass ("" otherwise)
Report(op, w, booking) ==
    [op |-> op, created |-> w.created, updated |-> w.updated,
     deleted |-> w.deleted, seeded |-> w.seeded, hit |-> w.hit,
     sent |-> w.sent, booking |-> booking,
     rerun |-> op = "sync" /\ last.op = "sync" /\ last.hit = {},
     caught |-> w.caught, response |-> "", clean |-> FALSE,
     reads |-> {}]

\* the answer of the trigger of a pass: the success body, or the HTTP 500
\* that its handler makes of an exception that reaches it
TriggerResponse(w) == IF w.raised THEN "500" ELSE "200"

\* the tables whose list read fails under F
FailedReads(F) == {f[1][2] : f \in {g \in F : g[1][1] = "GET" /\ g[1][3] = ""}}

\* the report of a trigger of a pass; clean: no request of the pass failed;
\* reads: the tables that the pass could not list
TriggerReport(w, F) ==
    [Report("sync", w, "") EXCEPT !.response = TriggerResponse(w),
                                  !.clean = (F = {}),
                                  !.reads = FailedReads(F)]

Commit(w) ==
    /\ missions' = [missions EXCEPT ![scope] = w.m]
    /\ tasks' = [tasks EXCEPT ![scope] = w.t]

\* the eligibility predicate: a booking is active iff it is not cancelled and
\* its unit and guest name are neither null, empty nor whitespace
Active(order) ==
    /\ order.status # CANCELLED
    /\ truthy(order.unit_number) /\ strip(order.unit_number) # <<>>
    /\ truthy(order.guest_name) /\ strip(order.guest_name) # <<>>

BookingClass(order) == IF Active(order) THEN "active" ELSE "inactive"

\* POST /api/orders
api_create_order(payload, F) ==
    /\ scope \in DateKinds
    /\ Len(orders) < Len(OrderIdSeq)
    /\ LET order == [id |-> FreshOrderId,
                     unit_number |-> payload.unitNumber,
                     guest_name |-> payload.guestName,
                     departure_date |-> payload.departureDate,
                     status |-> payload.status]
           stored == Outcome(F, <<"POST", "orders", "", "">>) = "ok"
           hooks == stored /\ order.departure_date # "" /\ order.status # CANCELLED
           w == IF ~ hooks THEN Work(scope)
                ELSE IF scope = "inspections"
                THEN create_inspection_for_departure_date(
                         Work(scope), F, order.departure_date,
                         order.unit_number, order.guest_name)
                ELSE create_cleaning_inspection_for_departure_date(
                         Work(scope), F, order.departure_date,
                         order.unit_number, order.guest_name)
       IN /\ orders' = IF stored THEN Append(orders, order) ELSE orders
          /\ Commit(w)
          /\ last' = Report("api_create_order", w,
                            IF stored THEN BookingClass(order) ELSE "")
    /\ UNCHANGED <<today, scope, clients, inflight>>

\* POST /orders: the order is stored, no hook runs
create_order(payload) ==
    /\ Len(orders) < Len(OrderIdSeq)
    /\ orders' = Append(orders, [id |-> FreshOrderId,
                                 unit_number |-> payload.unit_number,
                                 guest_name |-> payload.guest_name,
                                 departure_date |-> payload.departure_date,
                                 status |-> payload.status])
    /\ last' = Report("create_order", NoWork, "")
    /\ UNCHANGED <<missions, tasks, today, scope, clients, inflight>>

\* the columns of an order a payload of PATCH /api/orders/{id} may carry;
\* empty and whitespace-only texts are dropped, the others stored stripped
UpdateData(payload) ==
    [f \in {g \in DOMAIN payload :
               IF g \in {"status", "departure_date"} THEN payload[g] # ""
               ELSE truthy(payload[g]) /\ truthy(strip(payload[g]))} |->
        IF f \in {"status", "departure_date"} THEN payload[f] ELSE strip(payload[f])]

ApplyOrderUpdate(order, data) ==
    [f \in DOMAIN order |-> IF f \in DOMAIN data THEN data[f] ELSE order[f]]

\* x or y, on texts
Or(x, y) == IF truthy(x) THEN x ELSE y

\* PATCH /api/orders/{order_id}
api_update_order(order_id, payload, F) ==
    /\ scope \in DateKinds
    /\ order_id \in OrderIdsInUse
    /\ LET i == OrderIndex(order_id)
           have_current == Outcome(F, <<"GET", "orders", order_id, "">>) = "ok"
           current_order == IF have_current THEN orders[i] ELSE NoOrder
           old_departure_date == IF have_current THEN current_order.departure_date
                                 ELSE NoneDate
           update_data == UpdateData(payload)
           patched == DOMAIN update_data # {}
                      /\ Outcome(F, <<"PATCH", "orders", order_id, "">>) = "ok"
           raised == DOMAIN update_data # {}
                     /\ Outcome(F, <<"PATCH", "orders", order_id, "">>) # "ok"
           updated_order == IF patched THEN ApplyOrderUpdate(orders[i], update_data)
                            ELSE NoOrder
           new_departure_date ==
               IF updated_order.departure_date # "" THEN updated_order.departure_date
               ELSE Get(update_data, "departure_date", "")
           order_status ==
               IF updated_order.status # "" THEN updated_order.status
               ELSE Get(update_data, "status",
                        IF have_current THEN current_order.status ELSE STATUS_NEW)
           unit_number == Or(updated_order.unit_number,
                             Or(Get(update_data, "unit_number", None),
                                current_order.unit_number))
           guest_name == Or(updated_order.guest_name,
                            Or(Get(update_data, "guest_name", None),
                               current_order.guest_name))
           hooks == ~ raised /\ new_departure_date # "" /\ order_status # CANCELLED
           moved == old_departure_date # new_departure_date
           w == IF ~ hooks THEN Work(scope)
                ELSE IF scope = "inspections"
                THEN IF moved
                     THEN update_inspection_for_departure_date(
                              Work(scope), F, old_departure_date,
                              new_departure_date, unit_number, guest_name)
                     ELSE create_inspection_for_departure_date(
                              Work(scope), F, new_departure_date,
                              unit_number, guest_name)
                ELSE IF moved
                     THEN update_cleaning_inspection_for_departure_date(
                              Work(scope), F, old_departure_date,
                              new_departure_date, unit_number, guest_name)
                     ELSE create_cleaning_inspection_for_departure_date(
                              Work(scope), F, new_departure_date,
                              unit_number, guest_name)
       IN /\ orders' = IF patched THEN [orders EXCEPT ![i] = updated_order] ELSE orders
          /\ Commit(w)
          /\ last' = Report("api_update_order", w,
                            IF patched THEN BookingClass(updated_order) ELSE "")
    /\ UNCHANGED <<today, scope, clients, inflight>>

\* POST /api/inspections/sync
sync_all_inspections(F) ==
    /\ scope = "inspections"
    /\ LET w == sync_inspections_with_orders(Work(scope), F)
       IN /\ Commit(w)
          /\ last' = TriggerReport(w, F)
    /\ UNCHANGED <<orders, today, scope, clients, inflight>>

\* the orders in which the guest names can come out of set()
SetOrders == {<< <<"A">>, <<"B">> >>, << <<"B">>, <<"A">> >>}

\* POST /api/cleaning-inspections/sync
sync_all_cleaning_inspections(F, set_order) ==
    /\ scope = "cleaning_inspections"
    /\ LET w == sync_cleaning_inspections_with_orders(Work(scope), F, set_order)
       IN /\ Commit(w)
          /\ last' = TriggerReport(w, F)
    /\ UNCHANGED <<orders, today, scope, clients, inflight>>

(***************************************************************************)
(* update_inspection_task, update_cleaning_inspection_task                 *)
(***************************************************************************)
TasksOf(kind) == IF kind = "inspections" THEN "inspection_tasks"
                 ELSE IF kind = "cleaning_inspections" THEN "cleaning_inspection_tasks"
                 ELSE "monthly_inspection_tasks"

\* a filter by the task id alone
TaskFilter_ByIdOnly(r, task_id, inspection_id) == r.id = task_id

\* the rows a request with ?id=eq.<task_id>&inspection_id=eq.<inspection_id>
\* addresses
TaskFilter(r, task_id, inspection_id) ==
    r.id = task_id /\ r.inspection_id = inspection_id

\* PATCH <tasks table>?id=eq.<task_id>&inspection_id=eq.<inspection_id>
PatchTask(T, task_id, inspection_id, data) ==
    {IF TaskFilter(r, task_id, inspection_id)
     THEN [f \in DOMAIN r |-> IF f \in DOMAIN data THEN data[f] ELSE r[f]]
     ELSE r : r \in T}

UpdateTask(kind, T, F, inspection_id, task_id, payload) ==
    LET task_data == payload
        found == IF Outcome(F, <<"GET", TasksOf(kind), inspection_id, task_id>>) = "ok"
                 THEN {r \in T : TaskFilter(r, task_id, inspection_id)}
                 ELSE {}
        task_name == IF "name" \in DOMAIN payload /\ payload.name # ""
                     THEN payload.name
                     ELSE IF found # {} THEN (CHOOSE r \in found : TRUE).name
                     ELSE ""
        create_data == [id |-> task_id, inspection_id |-> inspection_id,
                        name |-> task_name,
                        completed |-> Get(task_data, "completed", FALSE)]
    IN
    IF DOMAIN task_data = {} THEN T
    ELSE IF found # {}
            /\ Outcome(F, <<"PATCH", TasksOf(kind), inspection_id, task_id>>) = "ok"
    THEN PatchTask(T, task_id, inspection_id, task_data)
    ELSE IF Outcome(F, <<"POST", TasksOf(kind), inspection_id, task_id>>) = "ok"
            /\ ~ HasTask(T, task_id, inspection_id)
    THEN T \cup {create_data}
    ELSE T

\* PATCH /api/inspections/{inspection_id}/tasks/{task_id} and its cleaning twin
update_inspection_task(inspection_id, task_id, payload, F) ==
    /\ scope \in DateKinds
    /\ tasks' = [tasks EXCEPT ![scope] =
                    UpdateTask(scope, tasks[scope], F, inspection_id, task_id, payload)]
    /\ last' = Report("toggle", [NoWork EXCEPT !.updated = {inspection_id}], "")
    /\ UNCHANGED <<orders, missions, today, scope, clients, inflight>>

(***************************************************************************)
(* create_inspection, create_cleaning_inspection, create_monthly_inspection*)
(* (POST /api/inspections, /api/cleaning-inspections,                      *)
(* /api/monthly-inspections): the checklist save                           *)
(***************************************************************************)
\* a Python value of a task's "completed" is <<"bool", b>>, <<"str", s>>,
\* <<"num", n>> or <<"none">>; the texts that count as true once lower-cased
TrueStrings == {<<"t", "r", "u", "e">>, <<"1">>, <<"y", "e", "s">>, <<"o", "n">>}

\* str.lower(), on the letters of the texts above
lower(s) ==
    LET upper == <<"T", "R", "U", "E", "Y", "S", "O", "N">>
        small == <<"t", "r", "u", "e", "y", "s", "o", "n">>
    IN [i \in DOMAIN s |->
          IF \E k \in DOMAIN upper : upper[k] = s[i]
          THEN small[CHOOSE k \in DOMAIN upper : upper[k] = s[i]]
          ELSE s[i]]

\* bool(completed) of a value that is neither a text nor None
bool(completed) ==
    IF completed[1] = "num" THEN completed[2] # 0 ELSE completed[2]

NormalizeCompleted(completed) ==
    IF completed[1] = "str" THEN lower(completed[2]) \in TrueStrings
    ELSE IF completed[1] = "none" THEN FALSE
    ELSE bool(completed)

\* DELETE <tasks table>?id=eq.<task_id>&inspection_id=eq.<inspection_id>
DeleteTask(T, task_id, inspection_id) ==
    {r \in T : ~ TaskFilter(r, task_id, inspection_id)}

\* the state of the loop over the payload's tasks: the task rows, the tasks
\* saved and failed so far, the task requests issued so far, each as
\* <<method, task id, inspection id of the filter or of the row, fields of
\* the body>>, and the ids whose insert answered with a conflict
SaveState(T) ==
    [t |-> T, saved |-> <<>>, failed |-> <<>>, requests |-> {}, conflicts |-> {}]

\* an update that sends the whole of task_data
TaskChanges_WholeRow(task_data) == task_data

\* the body of the update of a task
TaskChanges(task_data) ==
    [completed |-> task_data.completed, name |-> task_data.name]

\* one iteration of "for task in tasks"
SaveOneTask(kind, st, F, inspection_id, task, existing_task_ids) ==
    LET completed == NormalizeCompleted(Get(task, "completed", <<"bool", FALSE>>))
        task_data == [id |-> task.id, inspection_id |-> inspection_id,
                      name |-> task.name, completed |-> completed]
        task_id == task_data.id
        changes == TaskChanges(task_data)
        patch == Outcome(F, <<"PATCH", TasksOf(kind), inspection_id, task_id>>)
        post == Outcome(F, <<"POST", TasksOf(kind), inspection_id, task_id>>)
        conflict == HasTask(st.t, task_id, inspection_id)
        update == <<"PATCH", task_id, inspection_id, DOMAIN changes>>
        insert == <<"POST", task_id, task_data.inspection_id, DOMAIN task_data>>
        Saved(T, reqs) ==
            [st EXCEPT !.t = T, !.saved = Append(st.saved, task_data),
                       !.requests = st.requests \cup reqs,
                       !.conflicts = IF insert \in reqs /\ conflict
                                     THEN st.conflicts \cup {task_id}
                                     ELSE st.conflicts]
        Failed(reqs) ==
            [st EXCEPT !.failed = Append(st.failed, task_data),
                       !.requests = st.requests \cup reqs,
                       !.conflicts = IF insert \in reqs /\ post = "ok" /\ conflict
                                     THEN st.conflicts \cup {task_id}
                                     ELSE st.conflicts]
    IN
    IF task_id \in existing_task_ids
    THEN IF patch = "ok"
         THEN Saved(PatchTask(st.t, task_id, inspection_id, changes), {update})
         ELSE IF patch = "exc" THEN Failed({update})
         ELSE IF post = "ok" /\ ~ conflict
         THEN Saved(st.t \cup {task_data}, {update, insert})
         ELSE Failed({update, insert})
    ELSE IF post = "ok" /\ ~ conflict THEN Saved(st.t \cup {task_data}, {insert})
         ELSE IF post = "ok" /\ patch = "ok"
         THEN Saved(PatchTask(st.t, task_id, inspection_id, changes),
                    {insert, update})
         ELSE IF post = "ok" THEN Failed({insert, update})
         ELSE Failed({insert})

\* a loop that ends after the first target
SaveTasks_FirstOnly(kind, st, F, inspection_id, todo, existing_task_ids) ==
    IF todo = <<>> THEN st
    ELSE SaveOneTask(kind, st, F, inspection_id, Head(todo), existing_task_ids)

\* "for task in tasks": every target in turn, whatever became of the others
RECURSIVE SaveTasks(_, _, _, _, _, _)
SaveTasks(kind, st, F, inspection_id, todo, existing_task_ids) ==
    IF todo = <<>> THEN st
    ELSE SaveTasks(kind,
                   SaveOneTask(kind, st, F, inspection_id, Head(todo), existing_task_ids),
                   F, inspection_id, Tail(todo), existing_task_ids)

\* a set of ids that forgets the tasks
TaskIdsOf_None(task_list) == {}

TaskIdsOf(task_list) == {task_list[i].id : i \in 1..Len(task_list)}

\* a gate that asks only for one saved task
CleanupGate_AnySaved(saved_tasks, failed_tasks, task_list) == saved_tasks # <<>>

\* the condition under which the save deletes the stored tasks that the
\* payload no longer lists
CleanupGate(saved_tasks, failed_tasks, task_list) ==
    /\ saved_tasks # <<>>
    /\ Len(saved_tasks) = Len(task_list)
    /\ Len(failed_tasks) = 0

RECURSIVE DeleteTasks(_, _, _, _, _)
DeleteTasks(kind, T, F, inspection_id, tasks_to_delete) ==
    IF tasks_to_delete = {} THEN T
    ELSE
        LET task_id_to_delete == CHOOSE x \in tasks_to_delete : TRUE
            T1 == IF Outcome(F, <<"DELETE", TasksOf(kind), inspection_id,
                                  task_id_to_delete>>) = "ok"
                  THEN DeleteTask(T, task_id_to_delete, inspection_id)
                  ELSE T
        IN DeleteTasks(kind, T1, F, inspection_id, tasks_to_delete \ {task_id_to_delete})

\* the exit and the cleaning save run the cleanup, the monthly save has none
HasCleanup(kind) == kind \in DateKinds

\* the mission row the save writes
InspectionData(kind, payload) ==
    IF kind \in DateKinds
    THEN [id |-> payload.id,
          unit_number |-> payload.unitNumber,
          guest_name |-> payload.guestName,
          departure_date |-> payload.departureDate,
          status |-> Get(payload, "status", NOT_YET_DUE)]
    ELSE [id |-> payload.id,
          unit_number |-> payload.unitNumber,
          inspection_month |-> payload.inspectionMonth,
          status |-> Get(payload, "status", NOT_YET_DUE)]

\* a task of a response body: task_data as the loop built it
SavedTaskJson(task_data) ==
    [id |-> task_data.id, inspection_id |-> task_data.inspection_id,
     name |-> task_data.name, completed |-> <<"bool", task_data.completed>>]

SavedTasksJson(saved_tasks) ==
    [i \in DOMAIN saved_tasks |-> SavedTaskJson(saved_tasks[i])]

\* the ordinal ids, in the order in which the store returns the task rows
TaskIdOrder == <<"1", "2", "3">>

\* the task rows embedded in the mission that the monthly save reads back,
\* each as {id, name, completed}
StoredTasksJson(T, inspection_id) ==
    LET Stored(id) == HasTask(T, id, inspection_id)
        ids == SelectSeq(TaskIdOrder, Stored)
        Row(id) == CHOOSE r \in T : TaskFilter(r, id, inspection_id)
    IN [i \in DOMAIN ids |->
          [id |-> ids[i], name |-> Row(ids[i]).name,
           completed |-> <<"bool", Row(ids[i]).completed>>]]

\* the body of the response of the exit and of the cleaning save
DateSaveResponse(tasks_in, saved_tasks, failed_tasks) ==
    [status |-> "200",
     tasks |-> IF tasks_in # <<>> /\ saved_tasks # <<>>
               THEN SavedTasksJson(saved_tasks) ELSE tasks_in,
     savedTasksCount |-> Len(saved_tasks),
     totalTasksCount |-> Len(tasks_in),
     failedTasksCount |-> Len(failed_tasks)]

\* the body of the response of the monthly save: the mission as it is read
\* back with its task rows, or the saved tasks when the read does not answer
\* with the mission
MonthlySaveResponse(M, T, F, inspection_id, saved_tasks, failed_tasks) ==
    IF Outcome(F, <<"GET_FULL", "monthly_inspections", inspection_id, "">>) = "ok"
       /\ HasMission(M, inspection_id)
    THEN LET tasks_read == StoredTasksJson(T, inspection_id)
         IN [status |-> "200", tasks |-> tasks_read,
             savedTasksCount |-> Len(saved_tasks),
             failedTasksCount |-> Len(failed_tasks),
             totalTasksCount |-> Len(tasks_read)]
    ELSE [status |-> "200", tasks |-> SavedTasksJson(saved_tasks),
          savedTasksCount |-> Len(saved_tasks),
          failedTasksCount |-> Len(failed_tasks)]

\* the task loop of a save, the cleanup after it and the response, on the
\* mission rows M and the task rows T0, with the ids that the save's read of
\* the mission's tasks returned
SaveChecklist(kind, M, T0, F, inspection_id, task_list, existing_task_ids) ==
    LET st == SaveTasks(kind, SaveState(T0), F, inspection_id, task_list,
                        existing_task_ids)
        tasks_to_delete ==
            IF HasCleanup(kind) /\ CleanupGate(st.saved, st.failed, task_list)
            THEN existing_task_ids \ TaskIdsOf(st.saved)
            ELSE {}
        T == DeleteTasks(kind, st.t, F, inspection_id, tasks_to_delete)
        deletes == {<<"DELETE", id, inspection_id, {}>> : id \in tasks_to_delete}
    IN [m |-> M, t |-> T, raised |-> FALSE, saved |-> SeqToSet(st.saved),
        failed |-> TaskIdsOf(st.failed), tasks_to_delete |-> tasks_to_delete,
        requests |-> st.requests \cup deletes, conflicts |-> st.conflicts,
        fetched_ids |-> existing_task_ids, clean |-> F = {},
        response |-> IF kind \in DateKinds
                     THEN DateSaveResponse(task_list, st.saved, st.failed)
                     ELSE MonthlySaveResponse(M, T, F, inspection_id,
                                              st.saved, st.failed)]

\* the save: the resulting rows and what the save reports
SaveInspection(kind, payload, F) ==
    LET inspection_id == payload.id
        inspection_data == InspectionData(kind, payload)
        w == Work(kind)
        check == Outcome(F, <<"GET", kind, inspection_id, "">>)
        existing == IF check = "ok" THEN {r \in w.m : r.id = inspection_id} ELSE {}
        write == IF existing # {}
                 THEN Outcome(F, <<"PATCH", kind, inspection_id, "">>)
                 ELSE Outcome(F, <<"POST", kind, inspection_id, "">>)
        raised == check = "500" \/ write # "ok"
        w1 == IF existing # {} THEN PatchMission(w, inspection_id, inspection_data)
              ELSE PostMission(w, inspection_data)
        task_list == payload.tasks
        existing_task_ids ==
            IF Outcome(F, <<"GET", TasksOf(kind), inspection_id, "">>) = "ok"
            THEN {r.id : r \in {x \in w.t : x.inspection_id = inspection_id}}
            ELSE {}
    IN
    IF raised
    THEN [m |-> w.m, t |-> w.t, raised |-> TRUE, saved |-> {}, failed |-> {},
          tasks_to_delete |-> {}, requests |-> {}, conflicts |-> {},
          fetched_ids |-> {}, clean |-> FALSE, response |-> [status |-> "500"]]
    ELSE IF task_list = <<>>
    THEN [m |-> w1.m, t |-> w.t, raised |-> FALSE, saved |-> {}, failed |-> {},
          tasks_to_delete |-> {}, requests |-> {}, conflicts |-> {},
          fetched_ids |-> {}, clean |-> F = {},
          response |-> IF kind \in DateKinds
                       THEN DateSaveResponse(task_list, <<>>, <<>>)
                       ELSE MonthlySaveResponse(w1.m, w.t, F, inspection_id,
                                                <<>>, <<>>)]
    ELSE SaveChecklist(kind, w1.m, w.t, F, inspection_id, task_list,
                       existing_task_ids)

\* the report of a save: its target tasks, what became of them, the task
\* ids its read returned, the task requests it issued, the ids whose insert
\* conflicted, whether every request was answered without a failure (clean),
\* and the body of its response
SaveReport(payload, r) ==
    [op |-> "save", id |-> payload.id, raised |-> r.raised, saved |-> r.saved, failed |-> r.failed,
     tasks_to_delete |-> r.tasks_to_delete, targets |-> payload.tasks,
     fetched_ids |-> r.fetched_ids, requests |-> r.requests,
     conflicts |-> r.conflicts, clean |-> r.clean, response |-> r.response,
     carries_status |-> "status" \in DOMAIN payload,
     rerun |-> /\ last.op = "save" /\ last.clean /\ r.clean
               /\ last.id = payload.id /\ last.targets = payload.tasks]

\* POST /api/inspections, POST /api/cleaning-inspections,
\* POST /api/monthly-inspections
create_inspection(payload, F) ==
    /\ LET r == SaveInspection(scope, payload, F)
       IN /\ missions' = [missions EXCEPT ![scope] = r.m]
          /\ tasks' = [tasks EXCEPT ![scope] = r.t]
          /\ last' = SaveReport(payload, r)
    /\ UNCHANGED <<orders, today, scope, clients, inflight>>

(***************************************************************************)
(* sync_monthly_inspections                                                *)
(***************************************************************************)
\* date(year, month, 1).isoformat()
isoformat(year, month) ==
    ToString(year) \o "-" \o (IF month < 10 THEN "0" ELSE "") \o ToString(month)
    \o "-01"

\* date.today(), as (year, month): the behaviours start in November 2025 and
\* today counts the months that have passed since
Today ==
    LET n == 10 + today
    IN [year |-> 2025 + (n \div 12), month |-> (n % 12) + 1]

\* a next month that stays in the year of the current one
months_to_sync_SameYear ==
    <<isoformat(Today.year, Today.month),
      isoformat(Today.year, (Today.month % 12) + 1)>>

\* [current_month, next_month], as they are computed from today
months_to_sync ==
    LET current_month == isoformat(Today.year, Today.month)
        next_month == IF Today.month = 12 THEN isoformat(Today.year + 1, 1)
                      ELSE isoformat(Today.year, Today.month + 1)
    IN <<current_month, next_month>>

\* the roster of units (two names stand for the fifteen)
UNIT_NAMES == << <<"V", " ", "1">>, <<"H">> >>

\* a unit that is not one of UNIT_NAMES
OTHER_UNIT == <<"X">>

\* unit_number.replace(' ', '-'), as the string an id is built from
RECURSIVE replace(_)
replace(s) ==
    IF s = <<>> THEN ""
    ELSE (IF Head(s) = " " THEN "-" ELSE Head(s)) \o replace(Tail(s))

MonthlyId(unit_number, month_str) ==
    "MONTHLY-" \o replace(unit_number) \o "-" \o month_str

\* the (unit, month) pairs in the order of the two nested loops
RosterKeys ==
    LET n == Len(months_to_sync)
    IN [i \in 1..(Len(UNIT_NAMES) * n) |->
            <<UNIT_NAMES[((i - 1) \div n) + 1], months_to_sync[((i - 1) % n) + 1]>>]

RECURSIVE CreateMonthly(_, _, _, _)
CreateMonthly(w, F, keys, existing_keys) ==
    IF keys = <<>> THEN w
    ELSE
        LET unit_number == Head(keys)[1]
            month_str == Head(keys)[2]
            inspection_id == MonthlyId(unit_number, month_str)
            inspection_data == [id |-> inspection_id, unit_number |-> unit_number,
                                inspection_month |-> month_str,
                                status |-> NOT_YET_DUE]
            create == Outcome(F, <<"POST", "monthly_inspections", inspection_id, "">>)
            w1 == IF Head(keys) \in existing_keys THEN w
                  ELSE IF create # "ok" THEN Fail(w, inspection_id)
                  ELSE IF HasMission(w.m, inspection_id)
                  THEN PostMission(w, inspection_data)
                  ELSE SeedDefaultTasks(
                           "monthly_inspections",
                           [PostMission(w, inspection_data) EXCEPT
                               !.seeded = w.seeded \cup {inspection_id}],
                           F, inspection_id, inspection_id,
                           DEFAULT_MONTHLY_INSPECTION_TASKS)
        IN CreateMonthly(w1, F, Tail(keys), existing_keys)

RECURSIVE DeleteOldMonths(_, _, _, _)
DeleteOldMonths(w, F, existing, months_to_keep) ==
    IF existing = {} THEN w
    ELSE
        LET insp == CHOOSE r \in existing : TRUE
            w1 == IF insp.inspection_month # ""
                     /\ insp.inspection_month \notin months_to_keep
                  THEN IF Outcome(F, <<"DELETE", "monthly_inspections", insp.id, "">>)
                          = "ok"
                       THEN DeleteMissionRow(w, insp.id)
                       ELSE Fail(w, insp.id)
                  ELSE w
        IN DeleteOldMonths(w1, F, existing \ {insp}, months_to_keep)

\* the monthly pass once its read has answered: keys and months are the
\* roster pairs and the months the pass computed from today when it started
ReconcileMonthly(w, F, existing_inspections, keys, months) ==
    LET existing_keys ==
            {<<strip(insp.unit_number), insp.inspection_month>> :
                insp \in {r \in existing_inspections :
                             truthy(strip(r.unit_number)) /\ r.inspection_month # ""}}
    IN DeleteOldMonths(CreateMonthly(w, F, keys, existing_keys),
                       F, existing_inspections, SeqToSet(months))

sync_monthly_inspections(w, F) ==
    LET list_out == Outcome(F, <<"GET", "monthly_inspections", "", "">>)
        existing_inspections == IF list_out = "ok" THEN w.m ELSE {}
        w0 == IF list_out = "ok" THEN w ELSE Fail(w, "READ")
    IN
    IF list_out = "exc" THEN Except(Raise(Fail(w, "READ")))
    ELSE Except(ReconcileMonthly(w0, F, existing_inspections, RosterKeys,
                                 months_to_sync))

\* POST /api/monthly-inspections/sync
sync_monthly_inspections_endpoint(F) ==
    /\ scope = "monthly_inspections"
    /\ LET w == sync_monthly_inspections(Work(scope), F)
       IN /\ Commit(w)
          /\ last' = TriggerReport(w, F)
    /\ UNCHANGED <<orders, today, scope, clients, inflight>>

\* the calendar: a month passes
NextMonth ==
    /\ scope = "monthly_inspections"
    /\ today < MaxMonth
    /\ today' = today + 1
    /\ last' = Report("month", NoWork, "")
    /\ UNCHANGED <<orders, missions, tasks, scope, clients, inflight>>

(***************************************************************************)
(* Overlapping calls.  No handler holds a lock: between the reads of a     *)
(* call and its writes, other calls read and write the same tables.  A     *)
(* call in flight is a record of what its reads returned; its second step  *)
(* runs the rest of the handler on the tables as they are by then.  A      *)
(* booking create is in flight between the existence check of its hook and *)
(* the hook's writes, a pass between its list reads and its loops.         *)
(***************************************************************************)
InFlight(call, booking, found, fetched, existing, keys, months) ==
    [call |-> call, booking |-> booking, found |-> found, fetched |-> fetched,
     existing |-> existing, keys |-> keys, months |-> months]

Remove(q, i) == SubSeq(q, 1, i - 1) \o SubSeq(q, i + 1, Len(q))

\* POST /api/orders up to the answer of the hook's existence check
api_create_order_begin(payload) ==
    /\ scope \in DateKinds
    /\ Len(orders) < Len(OrderIdSeq)
    /\ Len(inflight) < MaxInFlight
    /\ LET order == [id |-> FreshOrderId,
                     unit_number |-> payload.unitNumber,
                     guest_name |-> payload.guestName,
                     departure_date |-> payload.departureDate,
                     status |-> payload.status]
           hooks == /\ order.departure_date # "" /\ order.status # CANCELLED
                    /\ ~ SkipsCreation(order.unit_number, order.guest_name)
           found == CheckForDate(scope, Work(scope), {}, order.departure_date)
       IN /\ orders' = Append(orders, order)
          /\ inflight' = IF hooks
                         THEN Append(inflight,
                                     InFlight("hook", order, found, <<>>, {}, <<>>, <<>>))
                         ELSE inflight
          /\ last' = Report("begin", NoWork, BookingClass(order))
    /\ UNCHANGED <<missions, tasks, today, scope, clients>>

\* the rest of the hook of the i-th call in flight
api_create_order_end(i) ==
    /\ inflight[i].call = "hook"
    /\ LET c == inflight[i]
           w == CreateAfterCheck(scope, Work(scope), {}, "ok", c.found,
                                 c.booking.departure_date, c.booking.unit_number,
                                 c.booking.guest_name)
       IN /\ Commit(w)
          /\ last' = Report("overlapped", w, BookingClass(c.booking))
    /\ inflight' = Remove(inflight, i)
    /\ UNCHANGED <<orders, today, scope, clients>>

\* a pass up to the answers of its list reads
sync_begin ==
    /\ Len(inflight) < MaxInFlight
    /\ LET NotCancelled(o) == o.status # CANCELLED
           fetched == IF scope = "inspections" THEN SelectSeq(orders, NotCancelled)
                      ELSE IF scope = "cleaning_inspections" THEN orders
                      ELSE <<>>
           keys == IF scope = "monthly_inspections" THEN RosterKeys ELSE <<>>
           months == IF scope = "monthly_inspections" THEN months_to_sync ELSE <<>>
       IN inflight' = Append(inflight,
                             InFlight("sync", NoOrder, {}, fetched, missions[scope],
                                      keys, months))
    /\ last' = Report("begin", NoWork, "")
    /\ UNCHANGED <<orders, missions, tasks, today, scope, clients>>

\* the loops of the i-th call in flight, a pass
sync_end(i, set_order) ==
    /\ inflight[i].call = "sync"
    /\ LET c == inflight[i]
           w == IF scope = "inspections"
                THEN Except(ReconcileExit(Work(scope), {}, c.fetched, c.existing))
                ELSE IF scope = "cleaning_inspections"
                THEN Except(ReconcileCleaning(Work(scope), {}, c.fetched, c.existing,
                                              set_order))
                ELSE Except(ReconcileMonthly(Work(scope), {}, c.existing, c.keys,
                                             c.months))
       IN /\ Commit(w)
          /\ last' = Report("overlapped", w, "")
    /\ inflight' = Remove(inflight, i)
    /\ UNCHANGED <<orders, today, scope, clients>>

\* a save up to the answer of its read of the mission's task ids: the
\* mission row is written and the ids of its stored tasks are held
create_inspection_begin(payload) ==
    /\ Len(inflight) < MaxInFlight
    /\ scope \in DateKinds
    /\ LET inspection_data == InspectionData(scope, payload)
           r == IF HasMission(missions[scope], payload.id)
                THEN PatchMission(Work(scope), payload.id, inspection_data)
                ELSE PostMission(Work(scope), inspection_data)
           existing_task_ids ==
               {x.id : x \in {y \in tasks[scope] : y.inspection_id = payload.id}}
       IN /\ missions' = [missions EXCEPT ![scope] = r.m]
          /\ inflight' = Append(inflight,
                                InFlight("save", payload, existing_task_ids,
                                         <<>>, {}, <<>>, <<>>))
    /\ last' = Report("begin", NoWork, "")
    /\ UNCHANGED <<orders, tasks, today, scope, clients>>

\* the rest of the save of the i-th call in flight: the task loop, the
\* cleanup and the response
create_inspection_end(i) ==
    /\ inflight[i].call = "save"
    /\ LET payload == inflight[i].booking
           r == SaveChecklist(scope, missions[scope], tasks[scope], {}, payload.id,
                              payload.tasks, inflight[i].found)
       IN /\ tasks' = [tasks EXCEPT ![scope] = r.t]
          /\ last' = [SaveReport(payload, r) EXCEPT !.op = "save_overlapped"]
    /\ inflight' = Remove(inflight, i)
    /\ UNCHANGED <<orders, missions, today, scope, clients>>

(***************************************************************************)
(* Specification                                                           *)
(***************************************************************************)
MissionIds(kind) == {r.id : r \in missions[kind]}

\* what the clients send to POST /api/orders and PATCH /api/orders/{id}:
\* "overlap": two active bookings on one date, stored by calls that overlap
\* with each other and with passes;
\* "merge": active bookings on two dates that are moved between the dates;
\* "eligibility": bookings on one date, with and without the texts that make
\* them active, that are cancelled and reopened;
\* "foreign": one active booking on the first date that is cancelled, next to
\* rows that another client of the store has written to the orders table
OrderPayloads ==
    IF clients = "overlap"
    THEN {[unitNumber |-> p[1], guestName |-> p[2], departureDate |-> "d1",
           status |-> STATUS_NEW] :
             p \in {<< <<"U">>, <<"A">> >>, << <<"V">>, <<"B">> >>}}
    ELSE IF clients = "merge"
    THEN {[unitNumber |-> p[1], guestName |-> p[2], departureDate |-> d,
           status |-> STATUS_NEW] :
             p \in {<< <<"U">>, <<"A">> >>, << <<"V">>, <<"B">> >>}, d \in Dates}
    ELSE IF clients = "eligibility"
    THEN {[unitNumber |-> p[1], guestName |-> p[2], departureDate |-> "d1",
           status |-> st] :
             p \in {<< <<"U">>, <<"A">> >>, << <<"U">>, <<" ">> >>, << <<>>, <<"B">> >>},
             st \in Statuses}
    ELSE IF clients = "monthly"
    THEN {[unitNumber |-> <<"H">>, guestName |-> <<"A">>, departureDate |-> "d1",
           status |-> STATUS_NEW]}
    ELSE IF clients = "foreign"
    THEN {[unitNumber |-> <<"U">>, guestName |-> <<"A">>, departureDate |-> "d1",
           status |-> STATUS_NEW]}
    ELSE {}

\* the rows that the other client writes: the table lets unit_number and
\* guest_name be null
ForeignRows ==
    {[unit_number |-> p[1], guest_name |-> p[2], departure_date |-> "d1",
      status |-> STATUS_NEW] :
        p \in {<<None, <<"B">> >>, << <<"V">>, None>>}}

OrderUpdatePayloads ==
    IF clients = "merge" THEN [departure_date : Dates]
    ELSE IF clients = "eligibility" THEN [status : Statuses]
    ELSE IF clients = "foreign" THEN [status : {CANCELLED}]
    ELSE {}

\* the faults of the requests that create_*_for_departure_date makes
MissionFaults(kind, d) ==
    ({<<"GET", kind, d, "">>} \X {"500", "exc"})
    \cup (IF MissionRowsByDate(missions[kind], d) = {}
          THEN ({<<"POST", kind, Prefix(kind) \o d, "">>} \X {"500", "exc"})
               \cup {<< <<"POST_TASK", kind, Prefix(kind) \o d, "2">>, "500" >>}
          ELSE {})
    \cup ({<<"PATCH", kind, r.id, "">> : r \in MissionRowsByDate(missions[kind], d)}
          \X {"500"})

\* the faults of the requests a booking handler makes; the "merge" traffic
\* meets its faults in the passes
CreateOrderFaults(payload) ==
    IF clients = "merge" THEN {}
    ELSE {<< <<"POST", "orders", "", "">>, "500" >>}
         \cup MissionFaults(scope, payload.departureDate)

UpdateOrderFaults(order_id, payload) ==
    LET order == orders[OrderIndex(order_id)]
        new_date == Get(payload, "departure_date", order.departure_date)
    IN IF clients = "merge" THEN {}
       ELSE {<< <<"GET", "orders", order_id, "">>, "500" >>,
             << <<"PATCH", "orders", order_id, "">>, "500" >>}
            \cup MissionFaults(scope, new_date)
            \cup (IF new_date = order.departure_date THEN {}
                  ELSE IF scope = "inspections"
                  THEN {<< <<"GET", "orders", order.departure_date, "">>, "exc" >>}
                  ELSE {<< <<"DELETE", scope, "CLEAN-" \o order.departure_date, "">>,
                           "500" >>})

\* the faults of the requests a pass over the orders makes
SyncFaults(kind) ==
    LET desired == {orders[i].departure_date :
                       i \in {j \in 1..Len(orders) : Groupable(orders[j])}}
        stored == {r.departure_date : r \in missions[kind]}
    IN {<< <<"GET", "orders", "", "">>, "500" >>}
       \cup ({<<"GET", kind, "", "">>} \X {"500", "exc"})
       \cup UNION {MissionFaults(kind, d) : d \in desired \ stored}
       \cup ({<<"DELETE", kind, r.id, "">> :
                 r \in {x \in missions[kind] : x.departure_date \notin desired}}
             \X {"500"})

\* what the clients send to the three saves: "checklist" clients save
\* checklists of the first date's mission (two tasks of the template and a
\* task of their own) and two tasks of the second date's mission;
\* "monthly" clients complete the first task of the current month's mission
\* of the first roster unit and save a mission of the first month for a unit
\* that is not on the roster; "encodings" clients save one task of one
\* mission with every encoding of its completed value; "racing" clients
\* save two checklists of the first date's mission in calls that overlap;
\* "workflow" clients save one task of one mission, with the status of a
\* finished mission and without a status
ClientTask(kind, id, c) ==
    [id |-> id,
     name |-> IF \E i \in DOMAIN DefaultTasks(kind) : DefaultTasks(kind)[i].id = id
              THEN (CHOOSE t \in SeqToSet(DefaultTasks(kind)) : t.id = id).name
              ELSE "own",
     completed |-> <<"bool", c>>]

\* the values of "completed" that the clients send
CompletedValues ==
    {<<"bool", TRUE>>, <<"bool", FALSE>>, <<"none">>, <<"num", 0>>, <<"num", 1>>,
     <<"str", <<"T", "R", "U", "E">> >>, <<"str", <<"Y", "e", "s">> >>,
     <<"str", <<"o", "n">> >>, <<"str", <<"1">> >>, <<"str", <<"n", "o">> >>,
     <<"str", <<>> >>}

\* the task of a payload with each of these values, and without the field
RawTasks(kind, id) ==
    {[ClientTask(kind, id, FALSE) EXCEPT !.completed = v] : v \in CompletedValues}
    \cup {[id |-> id, name |-> ClientTask(kind, id, FALSE).name]}

SavePayloads ==
    IF clients = "checklist"
    THEN LET Task(id, c) == ClientTask(scope, id, c)
             first == [id |-> Prefix(scope) \o "d1", unitNumber |-> <<"U">>,
                       guestName |-> <<"A">>, departureDate |-> "d1"]
             second == [id |-> Prefix(scope) \o "d2", unitNumber |-> <<"V">>,
                        guestName |-> <<"B">>, departureDate |-> "d2"]
         IN {first @@ [tasks |-> tl] :
                tl \in {<<Task("1", FALSE), Task("2", FALSE), Task("3", FALSE)>>}
                       \cup {<<Task("1", c), Task("2", FALSE)>> : c \in BOOLEAN}}
            \cup {second @@ [tasks |-> <<Task("1", TRUE), Task("3", FALSE)>>]}
    ELSE IF clients = "workflow"
    THEN LET mission == IF scope \in DateKinds
                        THEN [id |-> Prefix(scope) \o "d1", unitNumber |-> <<"U">>,
                              guestName |-> <<"A">>, departureDate |-> "d1"]
                        ELSE [id |-> MonthlyId(UNIT_NAMES[2], isoformat(2025, 11)),
                              unitNumber |-> UNIT_NAMES[2],
                              inspectionMonth |-> isoformat(2025, 11)]
             checklist == [tasks |-> <<ClientTask(scope, "1", TRUE)>>]
         IN {mission @@ checklist, mission @@ checklist @@ [status |-> DONE]}
    ELSE IF clients = "racing"
    THEN {[id |-> Prefix(scope) \o "d1", unitNumber |-> <<"U">>,
           guestName |-> <<"A">>, departureDate |-> "d1", tasks |-> tl] :
             tl \in {<<ClientTask(scope, "1", TRUE), ClientTask(scope, "2", TRUE)>>,
                     <<ClientTask(scope, "1", FALSE)>>}}
    ELSE IF clients = "encodings"
    THEN {(IF scope \in DateKinds
           THEN [id |-> Prefix(scope) \o "d1", unitNumber |-> <<"U">>,
                 guestName |-> <<"A">>, departureDate |-> "d1"]
           ELSE [id |-> MonthlyId(UNIT_NAMES[2], isoformat(2025, 11)),
                 unitNumber |-> UNIT_NAMES[2],
                 inspectionMonth |-> isoformat(2025, 11)])
          @@ [tasks |-> <<t>>] : t \in RawTasks(scope, "1")}
    ELSE IF clients = "monthly"
    THEN {[id |-> r.id, unitNumber |-> r.unit_number,
           inspectionMonth |-> r.inspection_month, status |-> r.status,
           tasks |-> <<ClientTask(scope, "1", TRUE)>>] :
             r \in {x \in missions[scope] :
                       /\ x.unit_number = UNIT_NAMES[1]
                       /\ x.inspection_month = months_to_sync[1]}}
         \cup {[id |-> MonthlyId(OTHER_UNIT, isoformat(2025, 11)),
                unitNumber |-> OTHER_UNIT,
                inspectionMonth |-> isoformat(2025, 11), status |-> NOT_YET_DUE,
                tasks |-> <<>>]}
    ELSE {}

\* the faults of the requests a save makes
SaveFaults(payload) ==
    LET stored == HasMission(missions[scope], payload.id)
        T == TasksOf(scope)
        mine == {r.id : r \in {x \in tasks[scope] : x.inspection_id = payload.id}}
        targets == TaskIdsOf(payload.tasks)
    IN {<< <<"GET", scope, payload.id, "">>, "exc" >>,
        << <<IF stored THEN "PATCH" ELSE "POST", scope, payload.id, "">>, "500" >>}
       \cup (IF scope = "monthly_inspections"
             THEN {<< <<"GET_FULL", scope, payload.id, "">>, "500" >>}
             ELSE {})
       \cup (IF payload.tasks = <<>> THEN {}
             ELSE {<< <<"GET", T, payload.id, "">>, "500" >>}
                  \cup ({<<"PATCH", T, payload.id, id>> : id \in targets \cap mine}
                        \X {"500", "exc"})
                  \cup ({<<"POST", T, payload.id, id>> : id \in targets \ mine}
                        \X {"500", "exc"})
                  \cup ({<<"DELETE", T, payload.id, id>> : id \in mine \ targets}
                        \X {"500"}))

\* the faults of the requests a toggle makes
ToggleFaults(inspection_id, task_id) ==
    {<<op, TasksOf(scope), inspection_id, task_id>> : op \in {"GET", "PATCH", "POST"}}
    \X {"500"}

MonthlySyncFaults ==
    ({<<"GET", "monthly_inspections", "", "">>} \X {"500", "exc"})
    \cup ({<<"POST", "monthly_inspections",
             MonthlyId(RosterKeys[i][1], RosterKeys[i][2]), "">> :
               i \in 1..Len(RosterKeys)} \X {"500"})
    \cup {<< <<"POST_TASK", "monthly_inspections",
               MonthlyId(RosterKeys[1][1], RosterKeys[1][2]), "2">>, "500" >>}
    \cup ({<<"DELETE", "monthly_inspections", r.id, "">> :
              r \in missions["monthly_inspections"]} \X {"500"})

FirstReport ==
    [op |-> "init", created |-> {}, updated |-> {}, deleted |-> {}, seeded |-> {},
     hit |-> {}, sent |-> {}, booking |-> "", rerun |-> FALSE, caught |-> FALSE,
     response |-> "", clean |-> FALSE,
     reads |-> {}]

Init ==
    /\ scope \in Kinds
    /\ clients \in IF scope \in DateKinds
                   THEN {"merge", "eligibility", "checklist", "overlap", "encodings",
                         "foreign", "racing", "workflow"}
                   ELSE {"monthly", "overlap", "encodings", "workflow"}
    /\ orders = <<>>
    /\ missions = [k \in Kinds |-> {}]
    /\ tasks = [k \in Kinds |-> {}]
    /\ today = 0
    /\ inflight = <<>>
    /\ last = FirstReport

CreateOrder ==
    /\ clients \notin {"overlap", "monthly"}
    /\ \E payload \in OrderPayloads :
        \E F \in FaultPlans(CreateOrderFaults(payload)) :
            api_create_order(payload, F)

\* the "merge" and the "monthly" clients store bookings through POST /orders
RawCreateOrder ==
    /\ clients \in {"merge", "monthly"}
    /\ \E payload \in OrderPayloads :
          create_order([unit_number |-> payload.unitNumber,
                        guest_name |-> payload.guestName,
                        departure_date |-> payload.departureDate,
                        status |-> payload.status])

\* a row of the orders table that did not come through POST /api/orders
StoreOrderRow ==
    /\ clients = "foreign"
    /\ \E row \in ForeignRows : create_order(row)

UpdateOrder ==
    \E order_id \in OrderIdsInUse, payload \in OrderUpdatePayloads :
        \E F \in FaultPlans(UpdateOrderFaults(order_id, payload)) :
            api_update_order(order_id, payload, F)

SyncExit ==
    /\ clients \in {"merge", "eligibility", "foreign"}
    /\ \E F \in FaultPlans(SyncFaults("inspections")) : sync_all_inspections(F)

SyncCleaning ==
    /\ clients \in {"merge", "eligibility", "foreign"}
    /\ \E F \in FaultPlans(SyncFaults("cleaning_inspections")), set_order \in SetOrders :
        sync_all_cleaning_inspections(F, set_order)

SyncMonthly ==
    /\ clients = "monthly"
    /\ \E F \in FaultPlans(MonthlySyncFaults) : sync_monthly_inspections_endpoint(F)

\* the calls of the "overlap" clients, in two steps each
BeginCreateOrder ==
    /\ clients = "overlap"
    /\ \E payload \in OrderPayloads : api_create_order_begin(payload)

EndCreateOrder ==
    \E i \in 1..Len(inflight) : api_create_order_end(i)

BeginSync ==
    /\ clients = "overlap"
    /\ sync_begin

EndSync ==
    \E i \in 1..Len(inflight), set_order \in SetOrders : sync_end(i, set_order)

\* the saves of the "racing" clients, in two steps each
BeginSave ==
    /\ clients = "racing"
    /\ \E payload \in SavePayloads : create_inspection_begin(payload)

EndSave ==
    \E i \in 1..Len(inflight) : create_inspection_end(i)

Save ==
    /\ clients # "racing"
    /\ \E payload \in SavePayloads :
          \E F \in FaultPlans(SaveFaults(payload)) : create_inspection(payload, F)

\* the clients toggle the first task of the template, on the missions they see
\* and, in the checklist traffic, on the first date's mission
ToggleTask ==
    \/ /\ clients = "eligibility"
       /\ \E inspection_id \in MissionIds(scope), payload \in [completed : BOOLEAN] :
            update_inspection_task(inspection_id, "1", payload, {})
    \/ /\ clients = "checklist"
       /\ \E c \in BOOLEAN :
            LET task == DefaultTasks(scope)[1]
                inspection_id == Prefix(scope) \o "d1"
            IN \E F \in FaultPlans(ToggleFaults(inspection_id, task.id)) :
                  update_inspection_task(inspection_id, task.id,
                                         [completed |-> c, name |-> task.name], F)

Next ==
    \/ CreateOrder
    \/ RawCreateOrder
    \/ StoreOrderRow
    \/ UpdateOrder
    \/ SyncExit
    \/ SyncCleaning
    \/ SyncMonthly
    \/ NextMonth
    \/ Save
    \/ ToggleTask
    \/ BeginCreateOrder
    \/ EndCreateOrder
    \/ BeginSync
    \/ EndSync
    \/ BeginSave
    \/ EndSave

Spec == Init /\ [][Next]_vars

(***************************************************************************)
(* Properties                                                              *)
(***************************************************************************)
HookOps == {"api_create_order", "api_update_order"}
ReconcilerOps == HookOps \cup {"sync"}

ActiveOrders(rows) == SelectSeq(rows, Active)

ActiveDates(rows) ==
    {ActiveOrders(rows)[i].departure_date : i \in 1..Len(ActiveOrders(rows))}

TasksOfMission(T, inspection_id) == {r \in T : r.inspection_id = inspection_id}

\* C1: in a checklist save of an exit or cleaning mission in which at least
\* one target task fails to save, no stored task is deleted: every task row
\* stored for the mission before the call is still stored after it, and the
\* target tasks whose writes succeeded are stored as they were sent.
C1_NoDeletionUnderPartialFailure ==
    [][(scope \in DateKinds /\ last'.op = "save" /\ last'.failed # {}) =>
          /\ \A r \in TasksOfMission(tasks[scope], last'.id) :
                HasTask(tasks'[scope], r.id, r.inspection_id)
          /\ last'.saved \subseteq tasks'[scope]]_vars

\* a save in which one target was saved, another failed, and a stored task
\* that the payload does not list is still stored
C1_Witness ==
    /\ scope \in DateKinds
    /\ last.op = "save"
    /\ last.failed # {}
    /\ last.saved # {}
    /\ \E r \in TasksOfMission(tasks[scope], last.id) :
          r.id \notin last.failed /\ r.id \notin {t.id : t \in last.saved}

\* C2: no reconciler action (a pass of any kind, or the hooks of a booking
\* create or update) turns the completed=true of a task of an already
\* existing mission into false.
C2_CompletionPreserved ==
    [][last'.op \in ReconcilerOps =>
          \A r \in tasks[scope] :
              (r.completed /\ HasMission(missions[scope], r.inspection_id)) =>
                  \A q \in tasks'[scope] :
                      (q.id = r.id /\ q.inspection_id = r.inspection_id) =>
                          q.completed]_vars

\* a reconciler action has posted the default tasks for a mission that was
\* stored before with a completed task, and the task is still completed
C2_Witness ==
    /\ last.op \in ReconcilerOps
    /\ \E r \in tasks[scope] :
          /\ r.completed
          /\ r.inspection_id \in last.seeded \ last.created
          /\ HasMission(missions[scope], r.inspection_id)

RECURSIVE Dedup(_, _)
Dedup(names, seen) ==
    IF names = <<>> THEN <<>>
    ELSE IF Head(names) \in seen THEN Dedup(Tail(names), seen)
    ELSE <<Head(names)>> \o Dedup(Tail(names), seen \cup {Head(names)})

\* C4: a failure-free pass that creates the mission of a date leaves exactly
\* one mission for the date, with the unit of the first active booking of the
\* date and the guest names of the date's active bookings, comma-joined, once
\* each, in the order of first appearance.
C4_MergedByDate ==
    (scope \in DateKinds /\ last.op = "sync" /\ last.hit = {}) =>
        \A d \in Dates :
            LET group == OrdersForDate(ActiveOrders(orders), d)
            IN (group # <<>> /\ (Prefix(scope) \o d) \in last.created) =>
                  /\ Cardinality(MissionRowsByDate(missions[scope], d)) = 1
                  /\ \A r \in MissionRowsByDate(missions[scope], d) :
                        /\ r.unit_number = strip(group[1].unit_number)
                        /\ r.guest_name = join(Dedup(GuestNamesOf(group), {}))

\* C5: when the hooks of an active booking run on a date whose mission is
\* stored, what the mission's guest name held before is still in it after,
\* and so is the booking's guest name.
C5_MergedNamesKept ==
    [][(scope \in DateKinds /\ last'.op \in HookOps /\ last'.booking = "active"
        /\ last'.hit = {}) =>
          \A r \in missions[scope], q \in missions'[scope] :
              (r.id = q.id /\ r.id \in last'.updated) =>
                  str_in(r.guest_name, q.guest_name)]_vars

\* C6: a failure-free pass deletes every stored mission whose date has no
\* active booking, and no task row of such a mission remains.
C6_OrphanDeleted ==
    [][(scope \in DateKinds /\ last'.op = "sync" /\ last'.hit = {}) =>
          \A r \in missions[scope] :
              r.departure_date \notin ActiveDates(orders) =>
                  /\ ~ HasMission(missions'[scope], r.id)
                  /\ TasksOfMission(tasks'[scope], r.id) = {}]_vars

\* a failure-free pass has deleted a mission, bookings are stored and none of
\* them is active
C6_Witness ==
    /\ scope \in DateKinds
    /\ last.op = "sync"
    /\ last.hit = {}
    /\ last.deleted # {}
    /\ Len(orders) > 0
    /\ ActiveDates(orders) = {}
    /\ missions[scope] = {}
    /\ tasks[scope] = {}

\* C7: no operation deletes an exit or cleaning mission whose date an active
\* booking has after the operation.
C7_NoDeleteWhileBooked ==
    [][\A r \in missions[scope] :
          (scope \in DateKinds /\ r.departure_date \in ActiveDates(orders')) =>
              HasMission(missions'[scope], r.id)]_vars

\* C8: a booking that is not active causes no mission to be created: the
\* hooks of such a booking store no new mission, and every mission a pass
\* stores is for a date that an active booking has.
C8_InactiveNeverCreates ==
    [][/\ (last'.op \in HookOps /\ last'.booking # "active") =>
              MissionIds(scope)' \subseteq MissionIds(scope)
       /\ (scope \in DateKinds /\ last'.op \in ReconcilerOps) =>
              \A q \in missions'[scope] :
                  ~ HasMission(missions[scope], q.id) =>
                      q.departure_date \in ActiveDates(orders')]_vars

\* the handlers have run for bookings with a departure date of which none is
\* active, the last of them a hook, and no mission is stored
C8_Witness ==
    /\ last.op \in HookOps
    /\ last.booking = "inactive"
    /\ Len(orders) = Len(OrderIdSeq)
    /\ \A i \in 1..Len(orders) : orders[i].departure_date # ""
    /\ \E i \in 1..Len(orders) :
          orders[i].status # CANCELLED /\ strip(orders[i].guest_name) = <<>>
    /\ missions[scope] = {}

\* C9: a toggle or a checklist save for a mission leaves the task rows of
\* every other mission as they are.
C9_TaskWritesScoped ==
    [][(last'.op \in {"toggle", "save"}) =>
          LET inspection_id == IF last'.op = "save" THEN last'.id
                               ELSE CHOOSE id \in last'.updated : TRUE
          IN {r \in tasks[scope] : r.inspection_id # inspection_id}
             = {r \in tasks'[scope] : r.inspection_id # inspection_id}]_vars

\* a save has written task "1" of a mission and deleted a stored task of it
\* while another mission owns tasks with both ids, task "1" with the other
\* value of completed
C9_Witness ==
    /\ last.op = "save"
    /\ last.tasks_to_delete # {}
    /\ \E a \in last.saved, b \in tasks[scope] :
          /\ a.id = "1" /\ b.id = "1"
          /\ b.inspection_id # last.id
          /\ a.completed # b.completed
          /\ a \in tasks[scope]
          /\ \A id \in last.tasks_to_delete :
                /\ ~ HasTask(tasks[scope], id, last.id)
                /\ HasTask(tasks[scope], id, b.inspection_id)

\* the key of a mission on a pass's failure list
KeyOf(r) == IF scope \in DateKinds THEN r.departure_date ELSE r.id

\* the keys a pass wants stored, with the id each is stored under
DesiredKeys ==
    IF scope \in DateKinds
    THEN {<<d, Prefix(scope) \o d>> : d \in ActiveDates(orders)}
    ELSE {<<MonthlyId(RosterKeys[i][1], RosterKeys[i][2]),
            MonthlyId(RosterKeys[i][1], RosterKeys[i][2])>> :
              i \in 1..Len(RosterKeys)}

Orphaned(r) ==
    IF scope \in DateKinds THEN r.departure_date \notin ActiveDates(orders)
    ELSE r.inspection_month \notin SeqToSet(months_to_sync)

\* C10: in a pass whose reads succeed and that reaches its requests (nothing
\* raises before them), every desired key on which no request fails is stored
\* after the pass and every orphaned mission on which no request fails is
\* deleted, whatever fails on the other keys.
C10_FailureIsPerKey ==
    [][(last'.op = "sync" /\ "READ" \notin last'.hit /\ ~ last'.caught) =>
          /\ \A k \in DesiredKeys :
                k[1] \notin last'.hit => HasMission(missions'[scope], k[2])
          /\ \A r \in missions[scope] :
                (Orphaned(r) /\ KeyOf(r) \notin last'.hit) =>
                    ~ HasMission(missions'[scope], r.id)]_vars

\* a pass in which a request for one key failed has created the mission of
\* another key
C10_Witness ==
    /\ last.op = "sync"
    /\ "READ" \notin last.hit
    /\ last.hit # {}
    /\ last.created # {}
    /\ \A k \in DesiredKeys :
          k[1] \in last.hit => ~ HasMission(missions[scope], k[2])

\* the key of a mission: its date, or its unit and month
MissionKey(r) ==
    IF scope \in DateKinds THEN r.departure_date
    ELSE <<strip(r.unit_number), r.inspection_month>>

\* the calls that report the requests that failed
ReportingOps == ReconcilerOps \cup {"overlapped"}

\* C11: however passes and booking hooks of a kind overlap, no two stored
\* missions have the same key, and a create that collides on the mission id
\* is a no-op: the row stored under the id stays as it is and the call goes
\* on to its end.
C11_NoDuplicateMission ==
    [][/\ \A r, q \in missions'[scope] : MissionKey(r) = MissionKey(q) => r = q
       /\ last'.op \in ReportingOps =>
             \A r \in missions[scope] :
                 ("CONFLICT " \o r.id) \in last'.hit => r \in missions'[scope]]_vars

\* a call whose reads saw no mission for a key has collided on the id of the
\* mission that an overlapping call stored meanwhile
C11_Witness ==
    /\ last.op = "overlapped"
    /\ \E r \in missions[scope] : ("CONFLICT " \o r.id) \in last.hit
    /\ last.created = {}

\* the keys of the stored missions
StoredKeys(M) == {MissionKey(r) : r \in M}

\* the keys a pass wants a mission for
DesiredMissionKeys ==
    IF scope \in DateKinds THEN ActiveDates(orders) ELSE SeqToSet(RosterKeys)

\* C12: whatever state earlier passes, cut off or failed, have left, a pass
\* that meets no failure leaves exactly one mission for every desired key and
\* no mission for any other key.
C12_OnePassConverges ==
    [][(last'.op = "sync" /\ last'.hit = {}) =>
          /\ StoredKeys(missions'[scope]) = DesiredMissionKeys
          /\ Cardinality(missions'[scope]) = Cardinality(DesiredMissionKeys)]_vars

\* C13: a reconciler action leaves the status and the task rows of every
\* mission that was stored before it as they are, and the mission update it
\* sends carries no field but unit_number and guest_name, and each of the
\* two only when its value differs from the stored one.
C13_OnlyChangedFieldsWritten ==
    [][last'.op \in ReconcilerOps =>
          /\ \A r \in missions[scope], q \in missions'[scope] :
                r.id = q.id => q.status = r.status
          /\ \A r \in missions[scope] :
                HasMission(missions'[scope], r.id) =>
                    TasksOfMission(tasks'[scope], r.id)
                    = TasksOfMission(tasks[scope], r.id)
          /\ \A x \in last'.sent :
                x[2] \in {"unit_number", "guest_name"} /\ x[3]]_vars

\* the task rows of the kind's default template, for a mission
TemplateRows(kind, inspection_id) ==
    {[id |-> t.id, inspection_id |-> inspection_id, name |-> t.name,
      completed |-> FALSE] : t \in SeqToSet(DefaultTasks(kind))}

C15_AllFailedEchoesInput ==
    (/\ last.op = "save" /\ ~ last.raised
     /\ last.targets # <<>>
     /\ last.saved = {}
     /\ last.failed = TaskIdsOf(last.targets)) =>
        last.response.tasks = last.targets

\* C16: the result of a checklist save has the counts total, saved and
\* failed; total is the number of the target tasks and saved + failed = total.
C16_CountsAddUp ==
    (last.op = "save" /\ ~ last.raised) =>
        /\ {"totalTasksCount", "savedTasksCount", "failedTasksCount"}
              \subseteq DOMAIN last.response
        /\ last.response.totalTasksCount = Len(last.targets)
        /\ last.response.savedTasksCount + last.response.failedTasksCount
           = last.response.totalTasksCount

\* C17: the trigger of a pass answers with the success response whatever
\* the pass met, for each of the three kinds.
C17_TriggerAlwaysSucceeds ==
    last.op = "sync" => last.response = "200"

\* a pass whose read raised an exception, answered with success
C17_Witness ==
    /\ last.op = "sync" /\ last.caught /\ "READ" \in last.hit
    /\ last.response = "200"

\* the first days of the month of today and of the month after it; after
\* December comes January of the next year
WindowMonths ==
    {isoformat(Today.year, Today.month),
     IF Today.month = 12 THEN isoformat(Today.year + 1, 1)
     ELSE isoformat(Today.year, Today.month + 1)}

\* the (unit, month) pairs the monthly kind wants a mission for
RosterPairs == {UNIT_NAMES[i] : i \in 1..Len(UNIT_NAMES)} \X WindowMonths

\* C18: a monthly pass that meets no failure leaves a mission for every
\* roster unit in the current and in the next month (January of the next
\* year after December), whatever bookings are stored, and creates a mission
\* for no other (unit, month) pair.
C18_MonthlyPassCoversRoster ==
    [][(scope = "monthly_inspections" /\ last'.op = "sync" /\ last'.hit = {}) =>
          /\ RosterPairs \subseteq StoredKeys(missions'[scope])
          /\ \A r \in missions'[scope] :
                r.id \in last'.created =>
                    /\ <<r.unit_number, r.inspection_month>> \in RosterPairs
                    /\ r.id = MonthlyId(r.unit_number, r.inspection_month)]_vars

\* a pass in December, with a booking stored, has created the missions of
\* January of the next year
C18_Witness ==
    /\ scope = "monthly_inspections" /\ last.op = "sync" /\ last.hit = {}
    /\ Today.month = 12 /\ orders # <<>>
    /\ \E r \in missions[scope] :
          /\ r.id \in last.created
          /\ r.inspection_month = isoformat(Today.year + 1, 1)

\* C19: a monthly pass that meets no failure deletes every stored mission
\* whose (unit, month) is not desired, the month being outside the window or
\* the unit not on the roster, and deletes no mission whose pair is desired.
C19_UndesiredMonthlyDeleted ==
    [][(scope = "monthly_inspections" /\ last'.op = "sync" /\ last'.hit = {}) =>
          \A r \in missions[scope] :
              IF MissionKey(r) \in RosterPairs
              THEN r \in missions'[scope]
              ELSE ~ HasMission(missions'[scope], r.id)]_vars

\* C20: after a pass of a date-keyed kind that meets no failure, every
\* mission that was stored before the pass and whose date has an active
\* booking has the unit of the date's first active booking and the merged
\* guest names of the date's active bookings.
C20_ExistingMissionBroughtUpToDate ==
    [][(scope \in DateKinds /\ last'.op = "sync" /\ last'.hit = {}) =>
          \A r \in missions[scope] :
              LET group == OrdersForDate(ActiveOrders(orders), r.departure_date)
              IN group # <<>> =>
                    \E q \in missions'[scope] :
                        /\ q.id = r.id
                        /\ q.unit_number = strip(group[1].unit_number)
                        /\ q.guest_name = join(Dedup(GuestNamesOf(group), {}))]_vars

\* the scoped update of a target task and the insert of its row, as requests
UpdateOf(task_id, inspection_id) ==
    <<"PATCH", task_id, inspection_id, {"name", "completed"}>>

InsertOf(task_id, inspection_id) ==
    <<"POST", task_id, inspection_id, {"id", "inspection_id", "name", "completed"}>>

SavedIds == {t.id : t \in last.saved}

\* C21: a save issues, for a target whose id its read of the mission's tasks
\* returned, the update of {name, completed} filtered by the id and the
\* mission id, and no update with another body or filter; for any other
\* target it issues the insert, and when the insert conflicts the same
\* update.
C21_UpdateOrInsertThenUpdate ==
    (last.op = "save" /\ ~ last.raised) =>
        /\ \A i \in DOMAIN last.targets :
              LET id == last.targets[i].id
              IN IF id \in last.fetched_ids
                 THEN UpdateOf(id, last.id) \in last.requests
                 ELSE /\ InsertOf(id, last.id) \in last.requests
                      /\ id \in last.conflicts =>
                            UpdateOf(id, last.id) \in last.requests
        /\ \A q \in last.requests :
              q[1] = "PATCH" => q = UpdateOf(q[2], last.id)

\* a save whose read returned no task id has met a conflict on the insert of
\* a target, has updated the stored row instead and counts the task as saved
C21_Witness ==
    /\ last.op = "save" /\ ~ last.raised
    /\ \E t \in last.saved :
          /\ t.id \in last.conflicts /\ t.id \notin last.fetched_ids
          /\ UpdateOf(t.id, last.id) \in last.requests
          /\ t \in tasks[scope]

\* C22: in a save in which the write of a target failed, by an error status
\* or by an exception, a write has been attempted for every target and every
\* task that was saved is stored as it was saved.
C22_FailureStaysWithItsTask ==
    (last.op = "save" /\ ~ last.raised /\ last.failed # {}) =>
        /\ \A i \in DOMAIN last.targets :
              \E q \in last.requests :
                  /\ q[1] \in {"PATCH", "POST"}
                  /\ q[2] = last.targets[i].id /\ q[3] = last.id
        /\ last.saved \subseteq tasks[scope]

\* a save in which the second of three targets failed: the first is stored
\* as saved and so is the third
C22_Witness ==
    /\ last.op = "save" /\ ~ last.raised
    /\ Len(last.targets) = 3
    /\ last.failed = {last.targets[2].id}
    /\ SavedIds = {last.targets[1].id, last.targets[3].id}
    /\ last.saved \subseteq tasks[scope]

StoredTaskIds(inspection_id) ==
    {r.id : r \in TasksOfMission(tasks[scope], inspection_id)}

DeletedByRequest == {q[2] : q \in {x \in last.requests : x[1] = "DELETE"}}

\* C23: a save of any kind whose targets have all been saved issues the
\* delete of exactly the task ids its read returned that are not among the
\* saved ones, and after a save that met no failure the mission's stored
\* task ids are the target ids.
C23_LeftoversDeleted ==
    (/\ last.op = "save" /\ ~ last.raised
     /\ last.targets # <<>>
     /\ last.failed = {} /\ SavedIds = TaskIdsOf(last.targets)) =>
        /\ DeletedByRequest = last.fetched_ids \ SavedIds
        /\ last.clean => StoredTaskIds(last.id) = TaskIdsOf(last.targets)

\* the values of "completed" that the claim takes for true
ClaimedTrue ==
    {<<"bool", TRUE>>,
     <<"str", <<"T", "R", "U", "E">> >>, <<"str", <<"Y", "e", "s">> >>,
     <<"str", <<"o", "n">> >>, <<"str", <<"1">> >>}

\* C24: the completed value that a save writes for a target is true when the
\* target's value is the boolean true or one of the texts "true", "1", "yes",
\* "on" in any letter case, and false for every other value, for null and
\* for a missing field.
C24_CompletedNormalized ==
    (last.op = "save" /\ ~ last.raised) =>
        \A i \in DOMAIN last.targets : \A t \in last.saved :
            t.id = last.targets[i].id =>
                t.completed = (/\ "completed" \in DOMAIN last.targets[i]
                               /\ last.targets[i].completed \in ClaimedTrue)

\* a booking that the passes must not count: cancelled, or its unit or guest
\* name null, empty or whitespace
Ineligible(o) == ~ Active(o)

Eligible(o) == Active(o)

\* what a pass over the eligible bookings alone leaves in the store
PassOverEligible(set_order) ==
    LET w == IF scope = "inspections"
             THEN ReconcileExit(Work(scope), {}, SelectSeq(orders, Eligible),
                                missions[scope])
             ELSE ReconcileCleaning(Work(scope), {}, SelectSeq(orders, Eligible),
                                    missions[scope], set_order)
    IN <<w.m, w.t>>

\* C25: a pass of a date kind in which no request fails leaves the store as
\* it would if the ineligible bookings (cancelled, or with a null, empty or
\* whitespace unit or guest name) were not stored
C25_IneligibleBookingsIgnored ==
    [][(scope \in DateKinds /\ last'.op = "sync" /\ last'.clean) =>
          \E set_order \in SetOrders :
              <<missions'[scope], tasks'[scope]>> = PassOverEligible(set_order)]_vars

\* a pass of the exit kind, with a null-unit row stored, in which no request failed
C25_ExitCase ==
    /\ scope = "inspections" /\ last.op = "sync" /\ last.clean
    /\ \E i \in 1..Len(orders) : orders[i].unit_number = None
    /\ last.deleted # {}

\* C26: a pass that cannot read the bookings creates, updates and deletes no
\* mission and leaves the store as it was; a pass that cannot list the stored
\* missions deletes none of them.
C26_FailedReadDeletesNothing ==
    [][last'.op = "sync" =>
          /\ "orders" \in last'.reads =>
                /\ last'.created = {} /\ last'.updated = {} /\ last'.deleted = {}
                /\ missions' = missions /\ tasks' = tasks
          /\ scope \in last'.reads =>
                /\ last'.deleted = {}
                /\ \A r \in missions[scope] : HasMission(missions'[scope], r.id)]_vars

\* a pass could not list the stored missions, and a mission that no booking
\* or roster month asks for is still stored after it
C26_Witness ==
    /\ scope \in DateKinds
    /\ last.op = "sync"
    /\ scope \in last.reads
    /\ \E r \in missions[scope] : Orphaned(r)

\* a pass could not read the bookings while a date with an active booking
\* had no mission
C26_OrdersCase ==
    /\ last.op = "sync"
    /\ "orders" \in last.reads
    /\ \E d \in ActiveDates(orders) : MissionRowsByDate(missions[scope], d) = {}

SaveOps == {"save", "save_overlapped"}

\* the normalised completed value of a target: true for the boolean true and
\* for the texts "true", "1", "yes", "on" in any letter case, else false
NormalizedTarget(task) ==
    "completed" \in DOMAIN task /\ task.completed \in ClaimedTrue

\* C28: when a save returns, every target that it counts as saved is stored
\* under its id and the mission's id with the target's name and the
\* normalised completed value of the target.
C28_SavedMeansStored ==
    (last.op \in SaveOps /\ ~ last.raised) =>
        \A i \in DOMAIN last.targets :
            last.targets[i].id \in SavedIds =>
                \E r \in tasks[scope] :
                    /\ r.id = last.targets[i].id /\ r.inspection_id = last.id
                    /\ r.name = last.targets[i].name
                    /\ r.completed = NormalizedTarget(last.targets[i])

\* an overlapped save counts a target as saved whose update matched no row
C28_LostUpdateCounted ==
    /\ last.op = "save_overlapped"
    /\ \E id \in SavedIds :
          /\ UpdateOf(id, last.id) \in last.requests
          /\ ~ HasTask(tasks[scope], id, last.id)

TemplateIds(kind) == {DefaultTasks(kind)[i].id : i \in DOMAIN DefaultTasks(kind)}

\* C29: when a hook or a pass has created a mission and a pass in which no
\* request fails comes next, the mission, if still stored, holds after that
\* pass a task for every entry of its kind's default template.
C29_LaterPassCompletesChecklist ==
    [][(last.op \in ReconcilerOps /\ last'.op = "sync" /\ last'.clean) =>
          \A id \in last.created :
              (HasMission(missions[scope], id) /\ HasMission(missions'[scope], id)) =>
                  TemplateIds(scope) \subseteq
                      {t.id : t \in TasksOfMission(tasks'[scope], id)}]_vars

\* C30: every task row that a hook or a pass writes belongs to a mission
\* that is stored when the call returns; a mission whose creation fails gets
\* no default task.
C30_NoTaskWithoutMission ==
    [][last'.op \in ReconcilerOps =>
          \A t \in tasks'[scope] \ tasks[scope] :
              HasMission(missions'[scope], t.inspection_id)]_vars

\* a monthly pass in which the creation of a mission failed
C30_MonthlyCase ==
    /\ scope = "monthly_inspections"
    /\ last.op = "sync"
    /\ \E i \in DOMAIN RosterKeys :
          LET id == MonthlyId(RosterKeys[i][1], RosterKeys[i][2])
          IN id \in last.hit /\ ~ HasMission(missions[scope], id)

\* C31: a save of a stored mission whose payload carries no status leaves the
\* status of the stored mission as it was.
C31_StatusKeptWithoutStatus ==
    [][(last'.op = "save" /\ ~ last'.raised /\ ~ last'.carries_status) =>
          \A r \in missions[scope], q \in missions'[scope] :
              (r.id = last'.id /\ q.id = r.id) => q.status = r.status]_vars

\* a save that carries a status writes it to a stored mission
C31_StatusCase ==
    /\ last.op = "save" /\ ~ last.raised /\ last.carries_status
    /\ \E r \in missions[scope] : r.id = last.id /\ r.status = DONE
====
